---- MODULE Spec2Model ----
(***************************************************************************)
(* Bulk invitation pipeline of src/app.py: the per-row normalisation, the  *)
(* post_invite client with its 429 backoff, the status classification and  *)
(* the batch loop with its 401 early exit and its pacing.                  *)
(*                                                                         *)
(* Python strings that carry data (cells, emails, bodies) are sequences of *)
(* one-character strings; status tags are TLA+ strings.                    *)
(***************************************************************************)
EXTENDS Integers, Sequences, FiniteSets, TLC

VARIABLES df, first_col, last_col, role_col, dry_run, throttle_ms,
          idx, pc, results, payload, retry, resps, backoffs,
          inflight, sent, paced, paceCalls, progressed

vars == <<df, first_col, last_col, role_col, dry_run, throttle_ms,
          idx, pc, results, payload, retry, resps, backoffs,
          inflight, sent, paced, paceCalls, progressed>>

inputs == <<df, first_col, last_col, role_col, dry_run, throttle_ms>>

\* Largest number of data rows of the uploaded CSV.
MaxRows == 2

\* Default of post_invite's max_retries parameter (the batch loop passes none).
max_retries == 5

\* Cap of one backoff sleep, in seconds.
BackoffCap == 10

\* Length of the response snippet kept in an outcome.
SnippetLen == 300

\* Offset between the dataframe index and the reported row number.
RowOffset == 2

Min(a, b) == IF a < b THEN a ELSE b

RECURSIVE Pow2(_)
Pow2(n) == IF n = 0 THEN 1 ELSE 2 * Pow2(n - 1)

Last(s) == s[Len(s)]

(***************************************************************************)
(* Strings                                                                 *)
(***************************************************************************)
Whitespace == {" ", "\t"}

RECURSIVE LStrip(_)
LStrip(s) == IF s # <<>> /\ Head(s) \in Whitespace THEN LStrip(Tail(s)) ELSE s

RECURSIVE RStrip(_)
RStrip(s) ==
    IF s # <<>> /\ Last(s) \in Whitespace
    THEN RStrip(SubSeq(s, 1, Len(s) - 1))
    ELSE s

\* str.strip()
Strip(s) == RStrip(LStrip(s))

UpperLetters == <<"A","B","C","D","E","F","G","H","I","J","K","L","M",
                  "N","O","P","Q","R","S","T","U","V","W","X","Y","Z">>
LowerLetters == <<"a","b","c","d","e","f","g","h","i","j","k","l","m",
                  "n","o","p","q","r","s","t","u","v","w","x","y","z">>

LowerChar(c) ==
    IF \E i \in 1..26 : UpperLetters[i] = c
    THEN LowerLetters[CHOOSE i \in 1..26 : UpperLetters[i] = c]
    ELSE c

\* str.lower()
Lower(s) == [i \in 1..Len(s) |-> LowerChar(s[i])]

\* needle in hay
Contains(needle, hay) ==
    \E i \in 0..(Len(hay) - Len(needle)) :
        SubSeq(hay, i + 1, i + Len(needle)) = needle

\* text[:n]
Prefix(s, n) == SubSeq(s, 1, Min(Len(s), n))

S_already  == <<"a","l","r","e","a","d","y">>
S_employee == <<"e","m","p","l","o","y","e","e">>
S_nan      == <<"n","a","n">>

(***************************************************************************)
(* Cells of the dataframe.  pd.read_csv turns a blank cell into NaN (a     *)
(* float) and keeps every other cell as the text between the delimiters.   *)
(***************************************************************************)
NaN     == [kind |-> "nan", val |-> <<>>]
Text(s) == [kind |-> "str", val |-> s]

\* bool(x): NaN is a non-zero float and hence true; a string is true iff non-empty.
Truthy(c) == c.kind = "nan" \/ c.val # <<>>

\* str(x)
Str(c) == IF c.kind = "nan" THEN S_nan ELSE c.val

\* x or ""
OrEmpty(c) == IF Truthy(c) THEN c ELSE Text(<<>>)

NONE == "(none)"

\* Representative CSV rows.
RowKinds ==
    { [email |-> Text(<<" ","a","@","x">>), first |-> Text(<<"B"," ">>),
       last  |-> NaN,                       role  |-> Text(<<" ","r">>)],
      [email |-> Text(<<" ","\t">>),        first |-> NaN,
       last  |-> Text(<<"d">>),             role  |-> NaN],
      [email |-> NaN,                       first |-> Text(<<" ">>),
       last  |-> Text(<<"d">>),             role  |-> Text(<<" ">>)] }

RECURSIVE SeqsUpTo(_, _)
SeqsUpTo(S, n) ==
    IF n = 0 THEN {<<>>}
    ELSE LET shorter == SeqsUpTo(S, n - 1)
         IN  shorter \cup {Append(s, x) : s \in {t \in shorter : Len(t) = n - 1}, x \in S}

\* df.empty stops the script, so a run has at least one row.
DataFrames == {d \in SeqsUpTo(RowKinds, MaxRows) : d # <<>>}

\* Selections of the three optional column selectboxes.
MappingChoices ==
    { <<"first", "last", "role">>,
      <<"first", NONE, "role">>,
      <<NONE, "last", NONE>>,
      <<NONE, NONE, NONE>> }

ThrottleChoices == {0, 100}

total == Len(df)

(***************************************************************************)
(* Row normalisation (top of the loop body)                                *)
(***************************************************************************)
Mapped(col) == col # NONE

email_of(row) == Strip(Str(OrEmpty(row.email)))
first_of(row) == IF Mapped(first_col) THEN Strip(Str(row.first)) ELSE <<>>
last_of(row)  == IF Mapped(last_col)  THEN Strip(Str(row.last))  ELSE <<>>
role_of(row)  == IF Mapped(role_col)  THEN Strip(Str(row.role))  ELSE S_employee

row   == df[idx + 1]
email == email_of(row)
first == first_of(row)
last  == last_of(row)
role  == role_of(row)

\* s or "employee"
OrEmployee(s) == IF s # <<>> THEN s ELSE S_employee

(***************************************************************************)
(* post_invite                                                             *)
(***************************************************************************)
\* Variant: the name keys are always written, empty when there is no value.
BuildPayload_emptyKeys(e, f, l, r) ==
    [email |-> e, role |-> OrEmployee(r), firstName |-> f, lastName |-> l]

\* The request body; an argument of None (empty first/last) leaves its key out.
BuildPayload(e, f, l, r) ==
    LET keys == {"email", "role"}
                  \cup (IF f # <<>> THEN {"firstName"} ELSE {})
                  \cup (IF l # <<>> THEN {"lastName"} ELSE {})
    IN  [k \in keys |->
            CASE k = "email"     -> e
              [] k = "role"      -> OrEmployee(r)
              [] k = "firstName" -> f
              [] k = "lastName"  -> l]

\* Variant: the cap is forgotten.
BackoffSeconds_uncapped(n) == Pow2(n)

\* min(2 ** retry, 10)
BackoffSeconds(n) == Min(Pow2(n), BackoffCap)

Resp(code, text) == [status_code |-> code, text |-> text]

\* What the remote service may answer.
Responses ==
    { Resp(200, <<>>),
      Resp(201, <<>>),
      Resp(400, <<"A","L","R","E","A","D","Y">>),
      Resp(409, <<"U"," ","a","l","r","e","a","d","y">>),
      Resp(409, <<"o","t","h","e","r">>),
      Resp(401, <<"A","l","r","e","a","d","y">>),
      Resp(401, <<>>),
      Resp(429, <<>>),
      Resp(500, <<>>) }

\* Messages of the requests.RequestException a request may raise.
Errors == {"ConnectTimeout", "ConnectionError"}

\* Entry of the response log for a request that raised instead of answering.
Raised(e) == [status_code |-> 0, text |-> <<>>, error |-> e]

(***************************************************************************)
(* Status classification                                                   *)
(***************************************************************************)
\* Variant: the body is searched without lower-casing it.
Classify_caseSensitive(r) ==
    IF r.status_code \in {200, 201} THEN "INVITED"
    ELSE IF r.status_code \in {400, 409} /\ Contains(S_already, r.text)
         THEN "ALREADY_EXISTS"
    ELSE IF r.status_code = 401 THEN "INVITE_ERROR 401"
    ELSE "INVITE_ERROR " \o ToString(r.status_code)

Classify(r) ==
    IF r.status_code \in {200, 201} THEN "INVITED"
    ELSE IF r.status_code \in {400, 409} /\ Contains(S_already, Lower(r.text))
         THEN "ALREADY_EXISTS"
    ELSE IF r.status_code = 401 THEN "INVITE_ERROR 401"
    ELSE "INVITE_ERROR " \o ToString(r.status_code)

(***************************************************************************)
(* Outcomes                                                                *)
(***************************************************************************)
SkippedOutcome ==
    [row |-> idx + RowOffset, email |-> <<>>, status |-> "SKIPPED: missing email"]

\* Variant: the payload echoes the untrimmed email cell.
DryRunOutcome_untrimmed ==
    [row |-> idx + RowOffset, email |-> email, status |-> "DRY_RUN: would INVITE",
     payload |-> [email |-> Str(OrEmpty(row.email)), first |-> first,
                  last |-> last, role |-> role]]

DryRunOutcome ==
    [row |-> idx + RowOffset, email |-> email, status |-> "DRY_RUN: would INVITE",
     payload |-> [email |-> email, first |-> first, last |-> last, role |-> role]]

AuthOutcome(r) ==
    [row |-> idx + RowOffset, email |-> email, status |-> "INVITE_ERROR 401",
     response |-> Prefix(r.text, SnippetLen)]

ClassifiedOutcome(r) ==
    [row |-> idx + RowOffset, email |-> email, first |-> first, last |-> last,
     role |-> role, status |-> Classify(r),
     response_snippet |-> Prefix(r.text, SnippetLen)]

NetworkOutcome(e) ==
    [row |-> idx + RowOffset, email |-> email, status |-> "NETWORK_ERROR",
     error |-> e]

(***************************************************************************)
(* Initial state: the script has reached the loop with empty results       *)
(***************************************************************************)
Init ==
    /\ df \in DataFrames
    /\ \E m \in MappingChoices :
        /\ first_col = m[1]
        /\ last_col = m[2]
        /\ role_col = m[3]
    /\ dry_run \in BOOLEAN
    /\ throttle_ms \in ThrottleChoices
    /\ idx = 0
    /\ pc = "loop"
    /\ results = <<>>
    /\ payload = <<>>
    /\ retry = 0
    /\ resps = <<>>
    /\ backoffs = <<>>
    /\ inflight = <<>>
    /\ sent = {}
    /\ paced = 0
    /\ paceCalls = 0
    /\ progressed = 0

(***************************************************************************)
(* Batch loop                                                              *)
(***************************************************************************)
\* Variant: the continue is missing and the skipped row falls through to the pacing.
SkipRow_paced ==
    /\ pc = "loop"
    /\ idx < total
    /\ email = <<>>
    /\ results' = Append(results, SkippedOutcome)
    /\ progressed' = progressed + 1
    /\ idx' = idx + 1
    /\ paced' = IF throttle_ms # 0 THEN paced + throttle_ms ELSE paced
    /\ paceCalls' = IF throttle_ms # 0 THEN paceCalls + 1 ELSE paceCalls
    /\ UNCHANGED <<inputs, pc, payload, retry, resps, backoffs, inflight, sent>>

\* if not email: append, progress, continue
SkipRow ==
    /\ pc = "loop"
    /\ idx < total
    /\ email = <<>>
    /\ results' = Append(results, SkippedOutcome)
    /\ progressed' = progressed + 1
    /\ idx' = idx + 1
    /\ UNCHANGED <<inputs, pc, payload, retry, resps, backoffs, inflight, sent, paced, paceCalls>>

\* Variant: the list is assigned anew instead of appended to.
DryRunRow_reassign ==
    /\ pc = "loop"
    /\ idx < total
    /\ email # <<>>
    /\ dry_run
    /\ results' = <<DryRunOutcome>>
    /\ progressed' = progressed + 1
    /\ idx' = idx + 1
    /\ UNCHANGED <<inputs, pc, payload, retry, resps, backoffs, inflight, sent, paced, paceCalls>>

\* if dry_run: append, progress, continue
DryRunRow ==
    /\ pc = "loop"
    /\ idx < total
    /\ email # <<>>
    /\ dry_run
    /\ results' = Append(results, DryRunOutcome)
    /\ progressed' = progressed + 1
    /\ idx' = idx + 1
    /\ UNCHANGED <<inputs, pc, payload, retry, resps, backoffs, inflight, sent, paced, paceCalls>>

\* Variant: the retry counter starts at 1.
CallPostInvite_retryFromOne ==
    /\ pc = "loop"
    /\ idx < total
    /\ email # <<>>
    /\ ~dry_run
    /\ payload' = BuildPayload(email, first, last, OrEmployee(role))
    /\ retry' = 1
    /\ resps' = <<>>
    /\ backoffs' = <<>>
    /\ pc' = "post"
    /\ UNCHANGED <<inputs, idx, results, inflight, sent, paced, paceCalls, progressed>>

\* The call of post_invite up to the top of its while loop.
CallPostInvite ==
    /\ pc = "loop"
    /\ idx < total
    /\ email # <<>>
    /\ ~dry_run
    /\ payload' = BuildPayload(email, first, last, OrEmployee(role))
    /\ retry' = 0
    /\ resps' = <<>>
    /\ backoffs' = <<>>
    /\ pc' = "post"
    /\ UNCHANGED <<inputs, idx, results, inflight, sent, paced, paceCalls, progressed>>

\* The request as it travels: the row it belongs to and its JSON body.
Request(i, body) == [row |-> i, json |-> body]

\* Variant: the request is handed to a worker and the loop does not wait.
SendRequest_noWait ==
    /\ pc = "post"
    /\ Len(inflight) < 2
    /\ inflight' = Append(inflight, Request(idx, payload))
    /\ sent' = sent \cup {idx}
    /\ UNCHANGED <<inputs, idx, pc, results, payload, retry, resps, backoffs,
                   paced, paceCalls, progressed>>

\* requests.post(url, headers=headers, json=payload, timeout=30) goes out and blocks.
SendRequest ==
    /\ pc = "post"
    /\ inflight' = Append(inflight, Request(idx, payload))
    /\ sent' = sent \cup {idx}
    /\ pc' = "wait"
    /\ UNCHANGED <<inputs, idx, results, payload, retry, resps, backoffs,
                   paced, paceCalls, progressed>>

\* Variant: a 429 is retried without looking at the counter.
ShouldRetry_unbounded(r, n) == r.status_code = 429

\* Variant: off by one in the retry budget.
ShouldRetry_offByOne(r, n) == r.status_code = 429 /\ n <= max_retries

\* Variant: server errors are retried as well.
ShouldRetry_serverErrors(r, n) == r.status_code \in {429, 500} /\ n < max_retries

\* The condition under which post_invite sleeps and sends again.
ShouldRetry(r, n) == r.status_code = 429 /\ n < max_retries

\* requests.post answered 429 with retries left: sleep, then loop.
RetryAfter429 ==
    /\ pc = "wait"
    /\ inflight' = Tail(inflight)
    /\ \E r \in Responses :
        /\ ShouldRetry(r, retry)
        /\ resps' = Append(resps, r)
    /\ retry' = retry + 1
    /\ backoffs' = Append(backoffs, BackoffSeconds(retry + 1))
    /\ pc' = "post"
    /\ UNCHANGED <<inputs, idx, results, payload, sent, paced, paceCalls, progressed>>

\* Variant: the break is missing, the loop goes on to the pacing.
Unauthorized_noBreak ==
    /\ pc = "wait"
    /\ inflight' = Tail(inflight)
    /\ \E r \in Responses :
        /\ ~ShouldRetry(r, retry)
        /\ r.status_code = 401
        /\ resps' = Append(resps, r)
        /\ results' = Append(results, AuthOutcome(r))
    /\ retry' = 0
    /\ pc' = "pace"
    /\ UNCHANGED <<inputs, idx, payload, backoffs, sent, paced, paceCalls, progressed>>

\* requests.post answered 401: post_invite returns, the outcome is appended, break.
Unauthorized ==
    /\ pc = "wait"
    /\ inflight' = Tail(inflight)
    /\ \E r \in Responses :
        /\ ~ShouldRetry(r, retry)
        /\ r.status_code = 401
        /\ resps' = Append(resps, r)
        /\ results' = Append(results, AuthOutcome(r))
    /\ retry' = 0
    /\ pc' = "done"
    /\ UNCHANGED <<inputs, idx, payload, backoffs, sent, paced, paceCalls, progressed>>

\* Variant: every status that is not a success ends the run.
Answered_breakOnError ==
    /\ pc = "wait"
    /\ inflight' = Tail(inflight)
    /\ \E r \in Responses :
        /\ ~ShouldRetry(r, retry)
        /\ r.status_code # 401
        /\ resps' = Append(resps, r)
        /\ results' = Append(results, ClassifiedOutcome(r))
        /\ pc' = IF Classify(r) = "INVITED" THEN "pace" ELSE "done"
    /\ retry' = 0
    /\ UNCHANGED <<inputs, idx, payload, backoffs, sent, paced, paceCalls, progressed>>

\* requests.post answered anything else: post_invite returns, the outcome is appended.
Answered ==
    /\ pc = "wait"
    /\ inflight' = Tail(inflight)
    /\ \E r \in Responses :
        /\ ~ShouldRetry(r, retry)
        /\ r.status_code # 401
        /\ resps' = Append(resps, r)
        /\ results' = Append(results, ClassifiedOutcome(r))
    /\ retry' = 0
    /\ pc' = "pace"
    /\ UNCHANGED <<inputs, idx, payload, backoffs, sent, paced, paceCalls, progressed>>

\* Variant: the exception is not caught by the loop and ends the run.
NetworkFailure_fatal ==
    /\ pc = "wait"
    /\ inflight' = Tail(inflight)
    /\ \E e \in Errors :
        /\ resps' = Append(resps, Raised(e))
        /\ results' = Append(results, NetworkOutcome(e))
    /\ retry' = 0
    /\ pc' = "done"
    /\ UNCHANGED <<inputs, idx, payload, backoffs, sent, paced, paceCalls, progressed>>

\* requests.post raised: the except clause of the loop appends NETWORK_ERROR.
NetworkFailure ==
    /\ pc = "wait"
    /\ inflight' = Tail(inflight)
    /\ \E e \in Errors :
        /\ resps' = Append(resps, Raised(e))
        /\ results' = Append(results, NetworkOutcome(e))
    /\ retry' = 0
    /\ pc' = "pace"
    /\ UNCHANGED <<inputs, idx, payload, backoffs, sent, paced, paceCalls, progressed>>

\* Variant: the sleep sits inside the try block, so a raised request skips it.
Pace_insideTry ==
    /\ pc = "pace"
    /\ paced' = IF throttle_ms # 0 /\ Last(results).status # "NETWORK_ERROR"
                THEN paced + throttle_ms ELSE paced
    /\ paceCalls' = IF throttle_ms # 0 /\ Last(results).status # "NETWORK_ERROR"
                    THEN paceCalls + 1 ELSE paceCalls
    /\ progressed' = progressed + 1
    /\ idx' = idx + 1
    /\ pc' = "loop"
    /\ payload' = <<>>
    /\ resps' = <<>>
    /\ backoffs' = <<>>
    /\ UNCHANGED <<inputs, results, retry, inflight, sent>>

\* if throttle_ms: time.sleep(throttle_ms / 1000.0); progress; next iteration
Pace ==
    /\ pc = "pace"
    /\ paced' = IF throttle_ms # 0 THEN paced + throttle_ms ELSE paced
    /\ paceCalls' = IF throttle_ms # 0 THEN paceCalls + 1 ELSE paceCalls
    /\ progressed' = progressed + 1
    /\ idx' = idx + 1
    /\ pc' = "loop"
    /\ payload' = <<>>
    /\ resps' = <<>>
    /\ backoffs' = <<>>
    /\ UNCHANGED <<inputs, results, retry, inflight, sent>>

\* The iterator is exhausted: the script goes on to the results table.
Finish ==
    /\ pc = "loop"
    /\ idx = total
    /\ pc' = "done"
    /\ UNCHANGED <<inputs, idx, results, payload, retry, resps, backoffs,
                   inflight, sent, paced, paceCalls, progressed>>

Next ==
    \/ SkipRow
    \/ DryRunRow
    \/ CallPostInvite
    \/ SendRequest
    \/ RetryAfter429
    \/ Unauthorized
    \/ Answered
    \/ NetworkFailure
    \/ Pace
    \/ Finish

Spec == Init /\ [][Next]_vars

\* The script is one thread that keeps running: requests.post returns or raises
\* within its timeout and every time.sleep ends, so an enabled step is taken.
FairSpec == Spec /\ WF_vars(Next)

TypeOK ==
    /\ idx \in 0..total
    /\ pc \in {"loop", "post", "wait", "pace", "done"}
    /\ retry \in 0..max_retries
    /\ Len(results) <= total

(***************************************************************************)
(* Observations used by the properties                                     *)
(***************************************************************************)
\* The post_invite call of the current row has returned or raised.
CallEnded == pc \in {"pace", "done"} /\ resps # <<>>

AllRateLimited(s) == \A i \in 1..Len(s) : s[i].status_code = 429

IsReal(o) == o.status \notin {"SKIPPED: missing email", "DRY_RUN: would INVITE"}

RealOutcomes == {j \in 1..Len(results) : IsReal(results[j])}

\* The mapped email cell is blank, or holds nothing but whitespace.
EmailBlank(r) == r.email.kind = "nan" \/ Strip(r.email.val) = <<>>

\* The outcomes so far are those of dataset rows 1..Len(results), in order.
OnePerRow == \A j \in 1..Len(results) : results[j].row = (j - 1) + RowOffset

(***************************************************************************)
(* C1: when the response finally returned for the k-th row is a 401, the   *)
(* outcome of that row is appended and the run stops: the outcome sequence *)
(* has exactly k entries, one per row 1..k, the last being the 401 row's,  *)
(* and afterwards no request is sent and no outcome is appended.           *)
(***************************************************************************)
C1_StoppedAt401 ==
    (resps # <<>> /\ Last(resps).status_code = 401) =>
        /\ pc = "done"
        /\ Len(results) = idx + 1
        /\ OnePerRow
        /\ Last(results) = AuthOutcome(Last(resps))
        /\ \A i \in sent : i <= idx

C1_AuthFailureStopsRun ==
    /\ []C1_StoppedAt401
    /\ [][pc = "done" => (results' = results /\ sent' = sent /\ resps' = resps)]_vars

C1_Witness ==
    /\ pc = "done"
    /\ total = 2
    /\ idx = 0
    /\ Len(resps) = 3
    /\ Last(resps).status_code = 401
    /\ Len(results) = 1

(***************************************************************************)
(* C2: every row whose mapped email is empty, whitespace-only or a blank   *)
(* cell gets the outcome "SKIPPED: missing email" and causes no request.   *)
(***************************************************************************)
C2_BlankEmailSkipped ==
    /\ \A j \in 1..Len(results) :
        EmailBlank(df[j]) => results[j].status = "SKIPPED: missing email"
    /\ \A i \in sent : ~EmailBlank(df[i + 1])

(***************************************************************************)
(* C3: in dry-run mode no request is sent during the whole run, and every  *)
(* row with a non-empty email yields exactly one DRY_RUN outcome whose     *)
(* payload fields equal the normalized email, first, last and role.        *)
(***************************************************************************)
C3_DryRunSendsNothing ==
    dry_run =>
        /\ sent = {}
        /\ resps = <<>>
        /\ inflight = <<>>
        /\ pc \notin {"post", "wait"}
        /\ Len(results) = (IF pc = "done" THEN total ELSE idx)
        /\ OnePerRow
        /\ \A j \in 1..Len(results) :
            email_of(df[j]) # <<>> =>
                /\ results[j].status = "DRY_RUN: would INVITE"
                /\ results[j].payload.email = Strip(Str(OrEmpty(df[j].email)))
                /\ results[j].payload.first =
                     (IF first_col = NONE THEN <<>> ELSE Strip(Str(df[j].first)))
                /\ results[j].payload.last =
                     (IF last_col = NONE THEN <<>> ELSE Strip(Str(df[j].last)))
                /\ results[j].payload.role =
                     (IF role_col = NONE THEN S_employee ELSE Strip(Str(df[j].role)))

C3_Witness ==
    /\ dry_run
    /\ pc = "done"
    /\ Len(results) = 2
    /\ results[1].status = "DRY_RUN: would INVITE"
    /\ results[1].payload.first = <<"B">>
    /\ results[2].status = "DRY_RUN: would INVITE"

(***************************************************************************)
(* C4 as stated: the status of a row that received a response follows the  *)
(* table INVITED / ALREADY_EXISTS / AUTH_ERROR / INVITE_ERROR:<code>.      *)
(***************************************************************************)
C4_StatedTag(code, text) ==
    IF code \in {200, 201} THEN "INVITED"
    ELSE IF code \in {400, 409} /\ Contains(S_already, Lower(text)) THEN "ALREADY_EXISTS"
    ELSE IF code = 401 THEN "AUTH_ERROR"
    ELSE "INVITE_ERROR:" \o ToString(code)

C4_StatedTable ==
    (CallEnded /\ Last(resps).status_code # 0) =>
        Last(results).status =
            C4_StatedTag(Last(resps).status_code, Last(resps).text)

(***************************************************************************)
(* C4 amended: the status of a row that received a response is a function  *)
(* of (statusCode, bodyText): INVITED for 200 or 201; ALREADY_EXISTS for   *)
(* 400 or 409 with "already" in the body in any letter case;               *)
(* "INVITE_ERROR 401" for 401 with any body; "INVITE_ERROR <code>", with a *)
(* space, in every other case.                                             *)
(***************************************************************************)
C4_CodeTable ==
    (CallEnded /\ Last(resps).status_code # 0) =>
        LET code   == Last(resps).status_code
            text   == Last(resps).text
            status == Last(results).status
            said   == \E i \in 0..(Len(text) - 7) :
                        /\ text[i + 1] \in {"a", "A"}
                        /\ text[i + 2] \in {"l", "L"}
                        /\ text[i + 3] \in {"r", "R"}
                        /\ text[i + 4] \in {"e", "E"}
                        /\ text[i + 5] \in {"a", "A"}
                        /\ text[i + 6] \in {"d", "D"}
                        /\ text[i + 7] \in {"y", "Y"}
        IN  /\ code \in {200, 201} => status = "INVITED"
            /\ (code \in {400, 409} /\ said) => status = "ALREADY_EXISTS"
            /\ code = 401 => status = "INVITE_ERROR 401"
            /\ (code = 409 /\ ~said) => status = "INVITE_ERROR 409"
            /\ (code = 400 /\ ~said) => status = "INVITE_ERROR 400"
            /\ code = 500 => status = "INVITE_ERROR 500"
            /\ code = 429 => status = "INVITE_ERROR 429"
            /\ status \in {"INVITED", "ALREADY_EXISTS",
                           "INVITE_ERROR " \o ToString(code)}

C4_Witness ==
    /\ CallEnded
    /\ Last(resps).status_code = 400
    /\ Last(resps).text = <<"A","L","R","E","A","D","Y">>
    /\ Last(results).status = "ALREADY_EXISTS"

(***************************************************************************)
(* C5: facing five 429 responses and then a 201, post_invite sleeps        *)
(* 2, 4, 8, 10, 10 seconds in that order (the n-th backoff is              *)
(* min(2^n, 10)), sends six requests, returns the 201, and the row is      *)
(* classified INVITED.                                                     *)
(***************************************************************************)
C5_BackoffSchedule ==
    /\ \A n \in 1..Len(backoffs) :
        backoffs[n] = (IF n = 1 THEN 2 ELSE IF n = 2 THEN 4 ELSE IF n = 3 THEN 8 ELSE 10)
    /\ (/\ CallEnded
        /\ Len(resps) > 5
        /\ AllRateLimited(SubSeq(resps, 1, 5))
        /\ resps[6].status_code = 201)
       => /\ Len(resps) = 6
          /\ backoffs = <<2, 4, 8, 10, 10>>
          /\ pc = "pace"
          /\ Last(results).status = "INVITED"
          /\ Last(results).response_snippet = resps[6].text
          /\ Last(results).row = idx + RowOffset

C5_Witness ==
    /\ pc = "pace"
    /\ Len(resps) = 6
    /\ AllRateLimited(SubSeq(resps, 1, 5))
    /\ resps[6].status_code = 201
    /\ backoffs = <<2, 4, 8, 10, 10>>
    /\ Last(results).status = "INVITED"

(***************************************************************************)
(* C6: one call of post_invite sends at most max_retries + 1 requests and  *)
(* sleeps at most max_retries times; when every response is 429 the last   *)
(* one is returned, recorded as an INVITE_ERROR outcome for 429, and the   *)
(* loop continues with the next row.                                       *)
(***************************************************************************)
C6_Exhausted == CallEnded /\ AllRateLimited(resps)

C6_Bounded ==
    /\ Len(resps) <= max_retries + 1
    /\ Len(backoffs) <= max_retries
    /\ C6_Exhausted =>
        /\ Len(resps) = max_retries + 1
        /\ Len(backoffs) = max_retries
        /\ pc = "pace"
        /\ Last(results).status = "INVITE_ERROR 429"
        /\ Last(results).row = idx + RowOffset

C6_RetryIsBounded ==
    /\ []C6_Bounded
    /\ [][C6_Exhausted => (idx' = idx + 1 /\ pc' = "loop" /\ results' = results)]_vars

C6_Witness ==
    /\ Len(results) = 2
    /\ results[1].status = "INVITE_ERROR 429"
    /\ C6_Exhausted

(***************************************************************************)
(* C7: only a 429 is retried: once a request yields any other status,      *)
(* post_invite returns that response without sleeping or sending again, so *)
(* a row whose first response is not 429 causes exactly one request.       *)
(***************************************************************************)
C7_OnlyLastMayDiffer ==
    /\ \A i \in 1..(Len(resps) - 1) : resps[i].status_code = 429
    /\ pc \in {"post", "wait"} => (AllRateLimited(resps) /\ Len(backoffs) = Len(resps))
    /\ CallEnded => Len(backoffs) = Len(resps) - 1
    /\ (CallEnded /\ resps[1].status_code # 429) => (Len(resps) = 1 /\ backoffs = <<>>)

C7_OnlyRateLimitRetried ==
    /\ []C7_OnlyLastMayDiffer
    /\ [][(pc = "wait" /\ resps' # resps /\ Last(resps').status_code \notin {0, 429})
            => /\ pc' # "post"
               /\ backoffs' = backoffs
               /\ Len(results') = Len(results) + 1
               /\ Last(results').email = email]_vars

C7_Witness ==
    /\ pc = "pace"
    /\ Len(resps) = 1
    /\ resps[1].status_code = 500
    /\ backoffs = <<>>

(***************************************************************************)
(* C8: a network failure raised by any attempt of post_invite, the first   *)
(* or one made after 429 backoffs, is not retried, is recorded as exactly  *)
(* one NETWORK_ERROR outcome of that row carrying the message, and does    *)
(* not stop the run: the next row is processed.                            *)
(***************************************************************************)
C8_Failed == CallEnded /\ Last(resps).status_code = 0

C8_Recorded ==
    C8_Failed =>
        /\ pc = "pace"
        /\ Len(results) = idx + 1
        /\ Last(results).status = "NETWORK_ERROR"
        /\ Last(results).error = Last(resps).error
        /\ Last(results).row = idx + RowOffset
        /\ Len(backoffs) = Len(resps) - 1

C8_NetworkFailureNotFatal ==
    /\ []C8_Recorded
    /\ [][C8_Failed => (idx' = idx + 1 /\ pc' = "loop" /\ results' = results /\ sent' = sent)]_vars

C8_Witness ==
    /\ C8_Failed
    /\ idx = 1
    /\ Len(resps) = 3
    /\ results[1].status = "NETWORK_ERROR"
    /\ results[2].error = "ConnectionError"

(***************************************************************************)
(* C9: a 401 is the only thing that ends the run before the last row: a    *)
(* finished run with fewer outcomes than rows ends with the outcome of a   *)
(* 401 row, a run without a 401 has exactly one outcome per row, and every *)
(* other outcome leaves the loop running.                                  *)
(***************************************************************************)
C9_Is401(o) == o.status = "INVITE_ERROR 401"

C9_Finished ==
    pc = "done" =>
        /\ Len(results) < total => (results # <<>> /\ C9_Is401(Last(results)))
        /\ (\A j \in 1..Len(results) : ~C9_Is401(results[j])) =>
              (Len(results) = total /\ OnePerRow)

C9_OnlyAuthEndsRun ==
    /\ []C9_Finished
    /\ [][(results' # results /\ ~C9_Is401(Last(results')))
            => (pc' \in {"loop", "pace"} /\ Len(results') = Len(results) + 1)]_vars

C9_Witness ==
    /\ pc = "done"
    /\ total = 2
    /\ Len(results) = 2
    /\ results[1].status = "INVITE_ERROR 500"
    /\ results[2].status = "ALREADY_EXISTS"

(***************************************************************************)
(* C10: with throttle T > 0, every non-skipped, non-dry-run row that does  *)
(* not end the run is followed by a sleep of T ms before the first request *)
(* of the next row, so after N such rows at least (N-1)*T ms were slept.   *)
(***************************************************************************)
C10_Pacing ==
    throttle_ms > 0 =>
        /\ pc \in {"loop", "post", "wait"} =>
              (/\ paced = Cardinality(RealOutcomes) * throttle_ms
               /\ paceCalls = Cardinality(RealOutcomes))
        /\ paced >= (Cardinality(RealOutcomes) - 1) * throttle_ms

C10_Witness ==
    /\ throttle_ms > 0
    /\ pc = "post"
    /\ idx = 1
    /\ resps = <<>>
    /\ results[1].status = "NETWORK_ERROR"
    /\ paced = throttle_ms

(***************************************************************************)
(* C11: rows are processed one at a time in dataset order: at most one     *)
(* request is in flight, no request of a row is sent before the outcomes   *)
(* of all earlier rows are appended, and the outcomes are ordered by       *)
(* strictly increasing row number, position p having row number p + 2.     *)
(***************************************************************************)
C11_Sequential ==
    /\ Len(inflight) <= 1
    /\ \A q \in 1..Len(inflight) :
        /\ pc = "wait"
        /\ inflight[q].row = idx
        /\ Len(results) = inflight[q].row
    /\ \A i \in sent : i <= Len(results) /\ i <= idx
    /\ \A j \in 1..Len(results) :
        /\ results[j].row = (j - 1) + 2
        /\ results[j].email \in {<<>>, email_of(df[j])}
    /\ \A j, k \in 1..Len(results) : j < k => results[j].row < results[k].row

C11_Witness ==
    /\ pc = "wait"
    /\ idx = 1
    /\ Len(inflight) = 1
    /\ inflight[1].row = 1
    /\ Len(results) = 1
    /\ results[1].row = 2
    /\ 0 \in sent

(***************************************************************************)
(* C12: in every outcome that carries a role and in every request payload  *)
(* the role is non-empty: "employee" when the role mapping is "(none)" or  *)
(* the mapped value is blank or whitespace-only, the trimmed mapped value  *)
(* otherwise.                                                              *)
(***************************************************************************)
C12_StatedRole(r) ==
    IF role_col = NONE \/ r.role.kind = "nan" \/ Strip(r.role.val) = <<>>
    THEN S_employee
    ELSE Strip(r.role.val)

C12_RoleNeverEmpty ==
    /\ \A j \in 1..Len(results) :
        /\ "payload" \in DOMAIN results[j] =>
              results[j].payload.role = C12_StatedRole(df[j])
        /\ "role" \in DOMAIN results[j] =>
              results[j].role = C12_StatedRole(df[j])
    /\ \A q \in 1..Len(inflight) :
        inflight[q].json.role = C12_StatedRole(df[inflight[q].row + 1])

(***************************************************************************)
(* C13: the request payload always holds email and role, holds firstName   *)
(* (lastName) exactly when the normalized first (last) is non-empty, never *)
(* holds an empty value, and is the same on every attempt of a row.        *)
(***************************************************************************)
C13_ExpectedKeys(r) ==
    {"email", "role"}
        \cup (IF first_of(r) # <<>> THEN {"firstName"} ELSE {})
        \cup (IF last_of(r) # <<>> THEN {"lastName"} ELSE {})

C13_WellFormed(body, r) ==
    /\ DOMAIN body = C13_ExpectedKeys(r)
    /\ \A k \in DOMAIN body : body[k] # <<>>
    /\ body["email"] = email_of(r)
    /\ "firstName" \in DOMAIN body => body["firstName"] = first_of(r)
    /\ "lastName" \in DOMAIN body => body["lastName"] = last_of(r)

C13_PayloadShape ==
    /\ pc \in {"post", "wait"} => C13_WellFormed(payload, df[idx + 1])
    /\ \A q \in 1..Len(inflight) :
        /\ inflight[q].json = payload
        /\ C13_WellFormed(inflight[q].json, df[inflight[q].row + 1])

C13_PayloadStable ==
    /\ []C13_PayloadShape
    /\ [][(pc \in {"post", "wait"} /\ pc' \in {"post", "wait"}) => payload' = payload]_vars

C13_Witness ==
    /\ pc = "wait"
    /\ Len(resps) = 2
    /\ Len(inflight) = 1
    /\ DOMAIN inflight[1].json = {"email", "role", "firstName"}

(***************************************************************************)
(* C14: a progress report is emitted after each processed row in every     *)
(* branch, the row whose 401 ends the run included: between rows and at    *)
(* the end the number of reports equals the number of outcomes.            *)
(***************************************************************************)
C14_ProgressPerOutcome ==
    pc \in {"loop", "done"} => progressed = Len(results)

(***************************************************************************)
(* C15: skipped rows and dry-run rows never cause a sleep, whatever the    *)
(* throttle: a run made only of such rows sleeps zero times.               *)
(***************************************************************************)
C15_NoSleepYet ==
    RealOutcomes = {} /\ pc \in {"loop", "done"} =>
        (paced = 0 /\ paceCalls = 0 /\ backoffs = <<>>)

C15_SkippedRowsNeverSleep ==
    /\ []C15_NoSleepYet
    /\ [][(results' # results /\ ~IsReal(Last(results')))
            => (paced' = paced /\ paceCalls' = paceCalls /\ backoffs' = backoffs)]_vars

C15_Witness ==
    /\ pc = "done"
    /\ throttle_ms > 0
    /\ dry_run
    /\ Len(results) = 2
    /\ results[1].status = "SKIPPED: missing email"
    /\ results[2].status = "DRY_RUN: would INVITE"
    /\ paceCalls = 0

(***************************************************************************)
(* C16: the outcome list is append-only: a step leaves it unchanged or     *)
(* appends exactly one outcome, earlier outcomes are never modified,       *)
(* removed or reordered, and each processed row contributes exactly one.   *)
(***************************************************************************)
C16_OnePerProcessedRow ==
    /\ pc \in {"loop", "post", "wait"} => Len(results) = idx
    /\ pc = "pace" => Len(results) = idx + 1
    /\ OnePerRow

C16_AppendOnly ==
    /\ []C16_OnePerProcessedRow
    /\ [][\/ results' = results
          \/ /\ Len(results') = Len(results) + 1
             /\ SubSeq(results', 1, Len(results)) = results
             /\ Last(results').row = idx + RowOffset]_vars

C16_Witness ==
    /\ pc = "done"
    /\ Len(results) = 2
    /\ results[1].status = "DRY_RUN: would INVITE"
    /\ results[2].status = "DRY_RUN: would INVITE"

(***************************************************************************)
(* C18: every run over a finite dataset terminates whatever the service    *)
(* answers: a row takes at most max_retries + 1 requests, the loop passes  *)
(* over the rows once, and the run reaches its final reporting step.       *)
(***************************************************************************)
C18_RowBudget == Len(resps) + Len(inflight) <= max_retries + 1

C18_Terminates ==
    /\ <>(pc = "done")
    /\ []C18_RowBudget
    /\ [][idx' = idx \/ (idx' = idx + 1 /\ idx' <= total)]_vars

C18_Witness ==
    /\ pc = "done"
    /\ Len(results) = 2
    /\ results[1].status = "INVITE_ERROR 429"
    /\ results[2].status = "NETWORK_ERROR"

(***************************************************************************)
(* C19: the retry counter belongs to one post_invite call and starts at 0  *)
(* for every row: it counts the 429 answers of this row only, the first    *)
(* backoff of any row is 2 seconds, and every row may be retried up to     *)
(* max_retries times, whatever happened on earlier rows.                   *)
(***************************************************************************)
C19_FreshBudget ==
    /\ pc \in {"post", "wait"} => (retry = Len(resps) /\ retry = Len(backoffs))
    /\ backoffs # <<>> => backoffs[1] = 2
    /\ (pc = "wait" /\ Len(resps) < max_retries) => ENABLED RetryAfter429

C19_Witness ==
    /\ idx = 1
    /\ results[1].status = "INVITE_ERROR 429"
    /\ pc = "pace"
    /\ Len(backoffs) = max_retries
    /\ backoffs[1] = 2
====
